---- MODULE Spec2Model ----
(***************************************************************************)
(* Model of copy_hyper_dbs.py: the two commands `list` (ListTables.run)    *)
(* and `run` (AppendWKTColumns.run) over a file system of .hyper database  *)
(* files and .csv files.                                                   *)
(*                                                                         *)
(* A .hyper file is a sequence of schemas, a schema a sequence of tables,  *)
(* a table a sequence of typed columns and a sequence of rows, a row a     *)
(* sequence of values aligned with the columns.  Texts (CSV cells, SQL     *)
(* expression texts, TEXT values) are sequences of one-character strings,  *)
(* so that quoting and parsing are computed character by character.        *)
(*                                                                         *)
(* Line 160 of the source lacks the closing quote of the table name; the   *)
(* model takes the name to be "LocalDatamunicipalities".                   *)
(***************************************************************************)
EXTENDS Integers, Sequences, FiniteSets, TLC

VARIABLES fs, csvfs, pc, args, rows, i, printed, trace, fs0, err, left, last

vars == <<fs, csvfs, pc, args, rows, i, printed, trace, fs0, err, left, last>>

(* ------------------------------ bounds --------------------------------- *)
MaxRows == 2
MaxCsv == 2
MaxCmds == 2

(* ------------------------------ values --------------------------------- *)
Null == [k |-> "null", n |-> 0, s |-> <<>>]
IntV(n) == [k |-> "int", n |-> n, s |-> <<>>]
TextV(s) == [k |-> "text", n |-> 0, s |-> s]
GeogV(s) == [k |-> "geog", n |-> 0, s |-> s]

Col(name, type) == [name |-> name, type |-> type]

(* What a path of a .hyper argument holds: a database file, a directory,   *)
(* or nothing.                                                             *)
File(db) == [kind |-> "file", db |-> db]
Dir == [kind |-> "dir", db |-> <<>>]
NoFile == [kind |-> "none", db |-> <<>>]

CsvFile(rs) == [exists |-> TRUE, rows |-> rs]
NoCsv == [exists |-> FALSE, rows |-> <<>>]

HyperPaths == {"a.hyper", "b.hyper"}
CsvPaths == {"municipalities.csv", "w.csv"}

(* ------------------------- names used by `run` ------------------------- *)
table_schema == "public"
table_name == "LocalDatamunicipalities"
geo_name == "Geometry"
id_name == "ParentID"
map_code_name == "MapCode"
path_to_csv == "municipalities.csv"

(* ---------------------------- sequences -------------------------------- *)
RECURSIVE SeqsUpTo(_, _)
SeqsUpTo(S, n) ==
  IF n = 0 THEN {<<>>}
  ELSE LET shorter == SeqsUpTo(S, n - 1)
       IN shorter \cup {Append(q, x) : q \in {r \in shorter : Len(r) = n - 1}, x \in S}

(* The position of the first element with the given name, 0 if none.       *)
NameIndex(seq, name) ==
  IF \E j \in 1..Len(seq) : seq[j].name = name
  THEN CHOOSE j \in 1..Len(seq) :
         seq[j].name = name /\ \A l \in 1..(j - 1) : seq[l].name # name
  ELSE 0

(* ------------------------------- texts --------------------------------- *)
Quote == "'"
Digits == {"0", "1", "2", "3", "4", "5", "6", "7", "8", "9"}

DigitVal(c) ==
  CASE c = "0" -> 0 [] c = "1" -> 1 [] c = "2" -> 2 [] c = "3" -> 3 [] c = "4" -> 4
    [] c = "5" -> 5 [] c = "6" -> 6 [] c = "7" -> 7 [] c = "8" -> 8 [] c = "9" -> 9

(* escape_string_literal of the vendor API, called at line 170: the text   *)
(* between single quotes, every single quote in it doubled.                *)
RECURSIVE DoubleQuotes(_)
DoubleQuotes(t) ==
  IF t = <<>> THEN <<>>
  ELSE (IF Head(t) = Quote THEN <<Quote, Quote>> ELSE <<Head(t)>>) \o DoubleQuotes(Tail(t))

escape_string_literal(t) == <<Quote>> \o DoubleQuotes(t) \o <<Quote>>

(* The engine's reading of an expression text as a string literal: it      *)
(* opens with a quote, a doubled quote inside stands for one quote, and    *)
(* the closing quote is the last character.                                *)
RECURSIVE ScanString(_, _)
ScanString(t, acc) ==
  IF t = <<>> THEN [ok |-> FALSE, s |-> <<>>]
  ELSE IF Head(t) # Quote THEN ScanString(Tail(t), Append(acc, Head(t)))
  ELSE IF Len(t) = 1 THEN [ok |-> TRUE, s |-> acc]
  ELSE IF t[2] = Quote THEN ScanString(Tail(Tail(t)), Append(acc, Quote))
  ELSE [ok |-> FALSE, s |-> <<>>]

ParseStringLiteral(t) ==
  IF t # <<>> /\ Head(t) = Quote THEN ScanString(Tail(t), <<>>)
  ELSE [ok |-> FALSE, s |-> <<>>]

(* The engine's reading of an expression text as an integer literal:       *)
(* one or more decimal digits, leading zeros allowed.                      *)
IsIntegerLiteral(t) == t # <<>> /\ \A j \in 1..Len(t) : t[j] \in Digits

RECURSIVE IntegerValue(_)
IntegerValue(t) ==
  IF t = <<>> THEN 0
  ELSE 10 * IntegerValue(SubSeq(t, 1, Len(t) - 1)) + DigitVal(t[Len(t)])

(* ---------------------------- the catalog ------------------------------ *)
SchemaIndex(db, schema) == NameIndex(db, schema)
TableIndex(sc, name) == NameIndex(sc.tables, name)
ColumnIndex(tb, name) == NameIndex(tb.cols, name)

HasTable(db, schema, name) ==
  /\ SchemaIndex(db, schema) # 0
  /\ TableIndex(db[SchemaIndex(db, schema)], name) # 0

GetTable(db, schema, name) ==
  LET sc == db[SchemaIndex(db, schema)] IN sc.tables[TableIndex(sc, name)]

PutTable(db, schema, name, tb) ==
  LET si == SchemaIndex(db, schema)
      ti == TableIndex(db[si], name)
  IN [db EXCEPT ![si].tables[ti] = tb]

(* catalog.get_schema_names / get_table_names: every table of every        *)
(* schema, as <<schema, table>> names in catalog order.                    *)
RECURSIVE TableNames(_)
TableNames(db) ==
  IF db = <<>> THEN <<>>
  ELSE [j \in 1..Len(Head(db).tables) |-> <<Head(db).name, Head(db).tables[j].name>>]
       \o TableNames(Tail(db))

(* SELECT COUNT of a table, and its columns of the geography type.         *)
RowCount(tb) == Len(tb.rows)

RECURSIVE SelectNames(_, _)
SelectNames(cols, type) ==
  IF cols = <<>> THEN <<>>
  ELSE (IF Head(cols).type = type THEN <<Head(cols).name>> ELSE <<>>)
       \o SelectNames(Tail(cols), type)

spatial_columns_none(tb) == SelectNames(tb.cols, "geography")

spatial_columns(tb) == SelectNames(tb.cols, "GEOGRAPHY")

(* ------------------------- the SQL statements -------------------------- *)
(* ALTER TABLE {table_name} ADD COLUMN {geo_name} TEXT,                    *)
(*   ADD COLUMN {map_code_name} INTEGER: an error when the table is        *)
(* missing or already has one of the columns; every row gets NULL in both. *)
AlterOk(db) ==
  /\ HasTable(db, table_schema, table_name)
  /\ ColumnIndex(GetTable(db, table_schema, table_name), geo_name) = 0
  /\ ColumnIndex(GetTable(db, table_schema, table_name), map_code_name) = 0

AlterTable(db) ==
  LET tb == GetTable(db, table_schema, table_name)
  IN PutTable(db, table_schema, table_name,
       [tb EXCEPT !.cols = @ \o <<Col(geo_name, "TEXT"), Col(map_code_name, "INTEGER")>>,
                  !.rows = [j \in 1..Len(@) |-> @[j] \o <<Null, Null>>]])

(* The UPDATE built at lines 169-171 from one CSV row: the WKT goes        *)
(* through escape_string_literal, the id is put in the statement as is.    *)
UpdateStatementSwapped(mrow) ==
  [geo |-> escape_string_literal(mrow.OBJECTID), code |-> <<"0">>, where |-> mrow.OBJECTID]

UpdateStatement(mrow) ==
  [geo |-> escape_string_literal(mrow.WKT), code |-> <<"0">>, where |-> mrow.OBJECTID]

(* UPDATE t SET Geometry = <geo>, MapCode = <code> WHERE ParentID = <where> *)
UpdateOk(db, stmt) ==
  /\ HasTable(db, table_schema, table_name)
  /\ LET tb == GetTable(db, table_schema, table_name)
     IN /\ ColumnIndex(tb, geo_name) # 0
        /\ ColumnIndex(tb, map_code_name) # 0
        /\ ColumnIndex(tb, id_name) # 0
  /\ ParseStringLiteral(stmt.geo).ok
  /\ IsIntegerLiteral(stmt.code)
  /\ IsIntegerLiteral(stmt.where)

WhereMatchesAtLeast(tb, stmt, row) ==
  LET v == row[ColumnIndex(tb, id_name)]
  IN v.k = "int" /\ v.n >= IntegerValue(stmt.where)

WhereMatches(tb, stmt, row) ==
  LET v == row[ColumnIndex(tb, id_name)]
  IN v.k = "int" /\ v.n = IntegerValue(stmt.where)

affected_row_count_any(db, stmt) ==
  LET tb == GetTable(db, table_schema, table_name)
  IN IF \E j \in 1..Len(tb.rows) : WhereMatches(tb, stmt, tb.rows[j]) THEN 1 ELSE 0

affected_row_count(db, stmt) ==
  LET tb == GetTable(db, table_schema, table_name)
  IN Cardinality({j \in 1..Len(tb.rows) : WhereMatches(tb, stmt, tb.rows[j])})

UpdateTable(db, stmt) ==
  LET tb == GetTable(db, table_schema, table_name)
      gc == ColumnIndex(tb, geo_name)
      mc == ColumnIndex(tb, map_code_name)
      set(row) == [row EXCEPT ![gc] = TextV(ParseStringLiteral(stmt.geo).s),
                              ![mc] = IntV(IntegerValue(stmt.code))]
  IN PutTable(db, table_schema, table_name,
       [tb EXCEPT !.rows = [j \in 1..Len(@) |->
                              IF WhereMatches(tb, stmt, @[j]) THEN set(@[j]) ELSE @[j]]])

(* --------------------------- initial files ----------------------------- *)
(* The target table: ParentID INTEGER, Name TEXT.  Rows are explored one   *)
(* order per bag (NULL first, then ascending ParentID).                    *)
ParentIds == {Null, IntV(1), IntV(2)}

NameAt(j) == TextV(<<CASE j = 1 -> "a" [] j = 2 -> "b" [] j = 3 -> "c" [] OTHER -> "d">>)

IdRank(v) == IF v.k = "null" THEN 0 ELSE v.n

IdColumns == {q \in SeqsUpTo(ParentIds, MaxRows) :
                \A j \in 1..(Len(q) - 1) : IdRank(q[j]) <= IdRank(q[j + 1])}

TargetTable(ids) ==
  [name |-> table_name,
   cols |-> <<Col(id_name, "INTEGER"), Col("Name", "TEXT")>>,
   rows |-> [j \in 1..Len(ids) |-> <<ids[j], NameAt(j)>>]]

ShapesTable ==
  [name |-> "Shapes",
   cols |-> <<Col("Shape", "GEOGRAPHY"), Col("Label", "TEXT")>>,
   rows |-> <<<<GeogV(<<"g">>), TextV(<<"s">>)>>>>]

ExtractTable ==
  [name |-> "Extract",
   cols |-> <<Col("Outline", "GEOGRAPHY"), Col("Centroid", "GEOGRAPHY"), Col("Id", "INTEGER")>>,
   rows |-> <<>>]

GeocodingDb(ids) ==
  <<[name |-> "public", tables |-> <<TargetTable(ids), ShapesTable>>]>>

OtherDb ==
  <<[name |-> "Extract", tables |-> <<ExtractTable>>],
    [name |-> "public", tables |-> <<>>]>>

(* CSV cells are texts exactly as csv.DictReader yields them; every CSV    *)
(* file has the OBJECTID and WKT columns.  An empty OBJECTID cell makes    *)
(* the statement WHERE "ParentID"= , which the engine rejects.             *)
CsvIds == {<<"1">>, <<"0", "1">>, <<"2">>, <<>>}
CsvWkts == {<<"P">>, <<"Q", Quote>>}
CsvRows == [OBJECTID : CsvIds, WKT : CsvWkts]
OtherCsv == <<[OBJECTID |-> <<"2">>, WKT |-> <<"W">>]>>

NoArgs == [command |-> "none", input_file |-> "a.hyper", output_file |-> "a.hyper",
           wkt_path |-> "w.csv"]

Files(maxRows, maxCsv) ==
  /\ \E ids \in {q \in IdColumns : Len(q) <= maxRows}, other \in {NoFile, Dir, File(OtherDb)} :
       fs = [p \in HyperPaths |-> IF p = "a.hyper" THEN File(GeocodingDb(ids)) ELSE other]
  /\ \E f \in {NoCsv} \cup {CsvFile(rs) : rs \in SeqsUpTo(CsvRows, maxCsv)} :
       csvfs = [p \in CsvPaths |-> IF p = path_to_csv THEN f ELSE CsvFile(OtherCsv)]

AtStart ==
  /\ pc = "idle"
  /\ args = NoArgs
  /\ rows = <<>>
  /\ i = 0
  /\ printed = <<>>
  /\ trace = <<>>
  /\ fs0 = fs
  /\ err = ""
  /\ last = [args |-> NoArgs, status |-> "idle", out |-> NoFile]

(* One invocation of the program (main runs one command and exits).        *)
Init == Files(MaxRows, MaxCsv) /\ AtStart /\ left = 1

(* A session of consecutive invocations over the same files.               *)
SessionInit == Files(MaxRows - 1, MaxCsv - 1) /\ AtStart /\ left = MaxCmds

(* ------------------------------ steps ---------------------------------- *)
NoStatement == [geo |-> <<>>, code |-> <<>>, where |-> <<>>]
Step(op, k, stmt) == [op |-> op, k |-> k, stmt |-> stmt]
Line(kind, subject, nrows, n) == [kind |-> kind, subject |-> subject, rows |-> nrows, n |-> n]

AtPrompt == pc \in {"idle", "done", "failed"} /\ left > 0

(* What main() starts a command with: the parsed arguments; the previous   *)
(* command's arguments, outcome and output file are kept for comparison.   *)
Begin(a) ==
  /\ AtPrompt
  /\ args' = a
  /\ left' = left - 1
  /\ fs0' = fs
  /\ last' = [args |-> args, status |-> pc,
              out |-> IF args.command = "run" THEN fs[args.output_file] ELSE NoFile]
  /\ trace' = <<>>
  /\ i' = 0

Raise(e) == pc' = "failed" /\ err' = e

(* CsvQueryClass.open_csv(path): the rows of the file it opens.            *)
open_csv(path) == csvfs[path_to_csv]

(* AppendWKTColumns.run, lines 146-151 *)
RunStart(input_file, output_file, wkt_path) ==
  /\ Begin([command |-> "run", input_file |-> input_file, output_file |-> output_file,
            wkt_path |-> wkt_path])
  /\ printed' = <<>>
  /\ IF open_csv(wkt_path).exists
     THEN rows' = open_csv(wkt_path).rows /\ pc' = "rm" /\ err' = ""
     ELSE rows' = <<>> /\ Raise("FileNotFoundError")
  /\ UNCHANGED <<fs, csvfs>>

(* line 153: rm -rf output_file removes a file or a directory, and its     *)
(* exit status is not looked at.                                           *)
rm_f(files, path) == IF files[path].kind = "dir" THEN files ELSE [files EXCEPT ![path] = NoFile]

rm_rf(files, path) == [files EXCEPT ![path] = NoFile]

RemoveOutput ==
  /\ pc = "rm"
  /\ fs' = rm_rf(fs, args.output_file)
  /\ trace' = Append(trace, Step("rm", 0, NoStatement))
  /\ pc' = "copy"
  /\ UNCHANGED <<csvfs, args, rows, i, printed, fs0, err, left, last>>

(* line 154: shutil.copyfile(input_file, output_file) reads a regular      *)
(* file and writes a regular file, creating or truncating it.              *)
copyfile_error(files, src, dst) ==
  IF files[src].kind = "none" THEN "FileNotFoundError"
  ELSE IF files[src].kind = "dir" \/ files[dst].kind = "dir" THEN "IsADirectoryError"
  ELSE ""

copyfile_first_table(files, src, dst) ==
  [files EXCEPT ![dst] = File(<<[files[src].db[1] EXCEPT !.tables = SubSeq(@, 1, 1)]>>)]

copyfile(files, src, dst) == [files EXCEPT ![dst] = files[src]]

CopyFile ==
  /\ pc = "copy"
  /\ IF copyfile_error(fs, args.input_file, args.output_file) = ""
     THEN /\ fs' = copyfile(fs, args.input_file, args.output_file)
          /\ trace' = Append(trace, Step("copy", 0, NoStatement))
          /\ pc' = "connect"
          /\ err' = err
     ELSE /\ Raise(copyfile_error(fs, args.input_file, args.output_file))
          /\ UNCHANGED <<fs, trace>>
  /\ UNCHANGED <<csvfs, args, rows, i, printed, fs0, left, last>>

(* lines 157-159: Connection(database=output_file) *)
Connect ==
  /\ pc = "connect"
  /\ IF fs[args.output_file].kind = "file"
     THEN trace' = Append(trace, Step("open", 0, NoStatement)) /\ pc' = "alter" /\ err' = err
     ELSE Raise("HyperException") /\ trace' = trace
  /\ UNCHANGED <<fs, csvfs, args, rows, i, printed, fs0, left, last>>

(* lines 160-165: the ALTER TABLE *)
Alter ==
  /\ pc = "alter"
  /\ trace' = Append(trace, Step("alter", 0, NoStatement))
  /\ IF AlterOk(fs[args.output_file].db)
     THEN /\ fs' = [fs EXCEPT ![args.output_file].db = AlterTable(@)]
          /\ pc' = "update"
          /\ i' = 1
          /\ err' = err
     ELSE /\ Raise("HyperException")
          /\ UNCHANGED <<fs, i>>
  /\ UNCHANGED <<csvfs, args, rows, printed, fs0, left, last>>

(* What is left in the files when a statement raises inside the with       *)
(* blocks of lines 157-172: the connection is closed, nothing is undone.   *)
OnErrorRemove(files, output_file) == [files EXCEPT ![output_file] = NoFile]

OnError(files, output_file) == files

(* line 166: the k-th row the loop visits *)
csv_query_row_reversed(rs, k) == rs[Len(rs) + 1 - k]

csv_query_row(rs, k) == rs[k]

(* lines 166-172: one turn of the loop over csv_query.rows *)
Update ==
  /\ pc = "update"
  /\ i <= Len(rows)
  /\ LET stmt == UpdateStatement(csv_query_row(rows, i))
         db == fs[args.output_file].db
     IN /\ trace' = Append(trace, Step("update", i, stmt))
        /\ IF UpdateOk(db, stmt)
           THEN /\ fs' = [fs EXCEPT ![args.output_file].db = UpdateTable(db, stmt)]
                /\ printed' = Append(printed, Line("update", csv_query_row(rows, i).OBJECTID,
                                                   affected_row_count(db, stmt),
                                                   Len(csv_query_row(rows, i).WKT)))
                /\ i' = i + 1
                /\ UNCHANGED <<pc, err>>
           ELSE /\ Raise("HyperException")
                /\ fs' = OnError(fs, args.output_file)
                /\ UNCHANGED <<printed, i>>
  /\ UNCHANGED <<csvfs, args, rows, fs0, left, last>>

(* lines 166, 173: the loop is over, print('done') *)
RunDone ==
  /\ pc = "update"
  /\ i > Len(rows)
  /\ printed' = Append(printed, Line("done", <<>>, 0, 0))
  /\ pc' = "done"
  /\ UNCHANGED <<fs, csvfs, args, rows, i, trace, fs0, err, left, last>>

(* ListTables.run, lines 57-66 *)
ListStart(input_file) ==
  /\ Begin([command |-> "list", input_file |-> input_file, output_file |-> input_file,
            wkt_path |-> "w.csv"])
  /\ printed' = <<Line("header", <<>>, 0, 0)>>
  /\ rows' = <<>>
  /\ IF fs[input_file].kind = "file"
     THEN pc' = "list" /\ err' = ""
     ELSE Raise("HyperException")
  /\ UNCHANGED <<fs, csvfs>>

(* lines 68-78: one table of one schema *)
ListTable ==
  /\ pc = "list"
  /\ i < Len(TableNames(fs[args.input_file].db))
  /\ LET db == fs[args.input_file].db
         table == TableNames(db)[i + 1]
         table_definition == GetTable(db, table[1], table[2])
         rows_in_table == RowCount(table_definition)
     IN printed' = Append(printed,
                     IF spatial_columns(table_definition) # <<>>
                     THEN Line("spatial", table, rows_in_table,
                               Len(spatial_columns(table_definition)))
                     ELSE Line("no spatial", table, rows_in_table, 0))
  /\ i' = i + 1
  /\ UNCHANGED <<fs, csvfs, pc, args, rows, trace, fs0, err, left, last>>

ListDone ==
  /\ pc = "list"
  /\ i >= Len(TableNames(fs[args.input_file].db))
  /\ pc' = "done"
  /\ UNCHANGED <<fs, csvfs, args, rows, i, printed, trace, fs0, err, left, last>>

Next ==
  \/ \E input_file \in HyperPaths, output_file \in HyperPaths, wkt_path \in CsvPaths :
       RunStart(input_file, output_file, wkt_path)
  \/ RemoveOutput
  \/ CopyFile
  \/ Connect
  \/ Alter
  \/ Update
  \/ RunDone
  \/ \E input_file \in HyperPaths : ListStart(input_file)
  \/ ListTable
  \/ ListDone

Spec == Init /\ [][Next]_vars

Session == SessionInit /\ [][Next]_vars

(* ============================== claims ================================= *)
IsRun == args.command = "run"
IsList == args.command = "list"

Target(db) == GetTable(db, table_schema, table_name)
IdOf(tb, row) == row[ColumnIndex(tb, id_name)]

(* A CSV join key equals a ParentID value: the key is an integer literal   *)
(* and the value is that integer (NULL equals nothing).                    *)
KeyEquals(key, v) == v.k = "int" /\ IsIntegerLiteral(key) /\ IntegerValue(key) = v.n

MatchingRows(tb, key) == {j \in 1..Len(tb.rows) : KeyEquals(key, IdOf(tb, tb.rows[j]))}

UpdateLines == {k \in 1..Len(printed) : printed[k].kind = "update"}

(* C1: after a successful run the output file exists; every table other    *)
(* than the target table equals the input's table (columns and rows), and  *)
(* the target table has the input's rows with the input's values in every  *)
(* original column.                                                        *)
C1_OutputIsInputExceptTarget ==
  (IsRun /\ pc = "done") =>
    LET inp == fs0[args.input_file].db
        outp == fs[args.output_file]
    IN /\ outp.kind = "file"
       /\ Len(outp.db) = Len(inp)
       /\ \A si \in 1..Len(inp) :
            /\ outp.db[si].name = inp[si].name
            /\ Len(outp.db[si].tables) = Len(inp[si].tables)
            /\ \A ti \in 1..Len(inp[si].tables) :
                 LET a == inp[si].tables[ti]
                     b == outp.db[si].tables[ti]
                 IN IF inp[si].name = table_schema /\ a.name = table_name
                    THEN /\ b.name = a.name
                         /\ Len(b.rows) = Len(a.rows)
                         /\ Len(b.cols) >= Len(a.cols)
                         /\ \A c \in 1..Len(a.cols) :
                              /\ b.cols[c] = a.cols[c]
                              /\ \A r \in 1..Len(a.rows) : b.rows[r][c] = a.rows[r][c]
                    ELSE b = a

C1_Witness ==
  /\ IsRun /\ pc = "done"
  /\ fs0[args.output_file].kind = "file"
  /\ \E k \in UpdateLines : printed[k].rows >= 1

(* C2 as stated: every UPDATE whose key equals the ParentID of at least    *)
(* one row of the target table reports exactly one changed row.            *)
C2_ExactlyOneRowChanged ==
  IsRun =>
    \A k \in UpdateLines :
      MatchingRows(Target(fs0[args.input_file].db), rows[k].OBJECTID) # {}
        => printed[k].rows = 1

(* C2 amended: every UPDATE whose key equals the ParentID of at least one  *)
(* row of the target table reports as many changed rows as there are rows  *)
(* with that ParentID, which is one or more.                               *)
C2_EveryMatchingRowChanged ==
  IsRun =>
    \A k \in UpdateLines :
      LET matching == MatchingRows(Target(fs0[args.input_file].db), rows[k].OBJECTID)
      IN matching # {} =>
           /\ printed[k].rows = Cardinality(matching)
           /\ printed[k].rows >= 1

C2_Witness ==
  /\ IsRun
  /\ \E k \in UpdateLines : printed[k].rows = 2

C4_LastCsvRowWins ==
  (IsRun /\ pc = "done") =>
    LET tb == Target(fs[args.output_file].db)
        gc == ColumnIndex(tb, geo_name)
        mc == ColumnIndex(tb, map_code_name)
    IN /\ gc # 0 /\ mc # 0
       /\ \A j \in 1..Len(tb.rows) :
            LET with == {k \in 1..Len(rows) : KeyEquals(rows[k].OBJECTID, IdOf(tb, tb.rows[j]))}
            IN IF with # {}
               THEN LET lastk == CHOOSE k \in with : \A l \in with : l <= k
                    IN /\ tb.rows[j][gc] = TextV(rows[lastk].WKT)
                       /\ tb.rows[j][mc] = IntV(0)
               ELSE tb.rows[j][gc] = Null /\ tb.rows[j][mc] = Null

C4_Witness ==
  /\ IsRun /\ pc = "done"
  /\ Len(rows) = 2
  /\ rows[1].WKT # rows[2].WKT
  /\ Quote \in {rows[2].WKT[c] : c \in 1..Len(rows[2].WKT)}
  /\ LET tb == Target(fs[args.output_file].db)
     IN /\ \E j \in 1..Len(tb.rows) :
             KeyEquals(rows[1].OBJECTID, IdOf(tb, tb.rows[j]))
             /\ KeyEquals(rows[2].OBJECTID, IdOf(tb, tb.rows[j]))
        /\ \E j \in 1..Len(tb.rows) : IdOf(tb, tb.rows[j]) = Null

(* The target table after ALTER TABLE and the UPDATEs of the first n CSV   *)
(* rows.                                                                   *)
RECURSIVE ApplyRows(_, _, _)
ApplyRows(db, rs, n) ==
  IF n = 0 THEN db ELSE UpdateTable(ApplyRows(db, rs, n - 1), UpdateStatement(rs[n]))

(* Whether a run onto a path that holds nothing goes through: the CSV and  *)
(* the input can be read, the ALTER TABLE and every UPDATE are accepted.   *)
ExpectedOk(files, a) ==
  /\ csvfs[path_to_csv].exists
  /\ files[a.input_file].kind = "file"
  /\ AlterOk(files[a.input_file].db)
  /\ \A k \in 1..Len(csvfs[path_to_csv].rows) :
       IsIntegerLiteral(csvfs[path_to_csv].rows[k].OBJECTID)

(* C5: a run onto an output path that holds anything (a file, the output   *)
(* of an earlier run, a directory) ends as the same run onto a path that   *)
(* holds nothing: it succeeds exactly when that one does, with the same    *)
(* output file; and a successful run that repeats the previous successful  *)
(* run's arguments leaves the output file that run left.                   *)
C5_OverwriteIsLikeFreshPath ==
  (IsRun /\ pc \in {"done", "failed"}) =>
    LET fresh == [fs0 EXCEPT ![args.output_file] = NoFile]
    IN /\ (pc = "done") <=> ExpectedOk(fresh, args)
       /\ pc = "done" =>
            fs[args.output_file]
              = File(ApplyRows(AlterTable(fresh[args.input_file].db), rows, Len(rows)))
       /\ (pc = "done" /\ last.status = "done" /\ last.args = args) =>
            fs[args.output_file] = last.out

C5_Witness ==
  /\ IsRun /\ pc = "done"
  /\ last.status = "done" /\ last.args = args
  /\ fs0[args.output_file].kind = "file"
  /\ ColumnIndex(Target(fs0[args.output_file].db), geo_name) # 0
  /\ \E k \in UpdateLines : printed[k].rows >= 1

(* C6: list prints one line for every table of every schema of the input   *)
(* file and no other table line; the line's number of spatial columns is   *)
(* the number of columns of the geography type, "no spatial columns"       *)
(* exactly when that is zero; the input file is never changed.             *)
C6_ListReportsSpatialColumns ==
  IsList =>
    /\ fs = fs0
    /\ pc = "done" =>
         LET db == fs0[args.input_file].db
             tables == UNION {{<<si, ti>> : ti \in 1..Len(db[si].tables)} : si \in 1..Len(db)}
             lines == {k \in 1..Len(printed) : printed[k].kind \in {"spatial", "no spatial"}}
             LinesOf(t) == {k \in lines :
                              printed[k].subject = <<db[t[1]].name, db[t[1]].tables[t[2]].name>>}
             ngeo(t) == Cardinality({c \in 1..Len(db[t[1]].tables[t[2]].cols) :
                                       db[t[1]].tables[t[2]].cols[c].type = "GEOGRAPHY"})
         IN /\ Cardinality(lines) = Cardinality(tables)
            /\ \A t \in tables :
                 /\ Cardinality(LinesOf(t)) = 1
                 /\ \A k \in LinesOf(t) :
                      /\ printed[k].n = ngeo(t)
                      /\ printed[k].rows = Len(db[t[1]].tables[t[2]].rows)
                      /\ (printed[k].kind = "no spatial") <=> (ngeo(t) = 0)

C6_Witness ==
  /\ IsList /\ pc = "done"
  /\ \E k \in 1..Len(printed) : printed[k].kind = "spatial" /\ printed[k].n = 1
  /\ \E k \in 1..Len(printed) : printed[k].kind = "no spatial"

(* C7: when the UPDATE for the k-th CSV row raises, the run is over with   *)
(* UPDATEs issued for rows 1..k and no other; the output file is there     *)
(* with the two added columns and the updates of rows 1..k-1 applied.      *)
C7_FailedUpdateKeepsProgress ==
  (IsRun /\ pc = "failed" /\ trace # <<>> /\ trace[Len(trace)].op = "update") =>
    LET k == trace[Len(trace)].k
        outp == fs[args.output_file]
    IN /\ k = i /\ k <= Len(rows)
       /\ {trace[j].k : j \in {l \in 1..Len(trace) : trace[l].op = "update"}} = 1..k
       /\ Cardinality({l \in 1..Len(trace) : trace[l].op = "update"}) = k
       /\ UpdateLines = 1..(k - 1)
       /\ outp.kind = "file"
       /\ ColumnIndex(Target(outp.db), geo_name) # 0
       /\ ColumnIndex(Target(outp.db), map_code_name) # 0
       /\ outp.db = ApplyRows(AlterTable(fs0[args.input_file].db), rows, k - 1)

C7_Witness ==
  /\ IsRun /\ pc = "failed" /\ trace # <<>> /\ trace[Len(trace)].op = "update"
  /\ i = 2
  /\ printed[1].rows >= 1

(* C8 as stated: the rows run works with are the rows of the file named by *)
(* the -w/--wkt_path argument.                                             *)
C8_RowsComeFromWktPath ==
  (IsRun /\ pc \in {"rm", "copy", "connect", "alter", "update", "done"}) =>
    rows = csvfs[args.wkt_path].rows

(* C9: the steps of a run are, in this order, rm of the output path (after *)
(* it the path holds nothing), the copy of the input onto it, the opening  *)
(* of the copy, one ALTER TABLE, and one UPDATE per CSV row in CSV order;   *)
(* a successful run has issued all of them.                                *)
C9_StepsInOrder ==
  IsRun =>
    /\ Len(trace) <= 4 + Len(rows)
    /\ \A j \in 1..Len(trace) :
         IF j <= 4
         THEN trace[j].op = <<"rm", "copy", "open", "alter">>[j]
         ELSE /\ trace[j].op = "update"
              /\ trace[j].k = j - 4
              /\ trace[j].stmt.where = rows[j - 4].OBJECTID
              /\ ParseStringLiteral(trace[j].stmt.geo) = [ok |-> TRUE, s |-> rows[j - 4].WKT]
    /\ pc = "copy" => Len(trace) = 1 /\ fs[args.output_file] = NoFile
    /\ pc = "connect" => Len(trace) = 2 /\ fs[args.output_file] = fs0[args.input_file]
    /\ pc = "alter" => Len(trace) = 3
    /\ pc = "update" => Len(trace) = 4 + (i - 1)
    /\ pc = "done" => Len(trace) = 4 + Len(rows)

C9_Witness ==
  /\ IsRun /\ pc = "done"
  /\ Len(rows) = 2
  /\ rows[1] # rows[2]
  /\ fs0[args.output_file].kind # "none"

(* C10 as stated: during a run the input file exists with the content it   *)
(* had when the run started, whatever the output path is.                  *)
C10_InputNeverTouched ==
  (IsRun /\ fs0[args.input_file].kind = "file") =>
    fs[args.input_file] = fs0[args.input_file]

====
